---------------------------- MODULE Spec2Model ----------------------------
(***************************************************************************)
(* Model of the dining hall traffic simulator (src/main.py): the schedule  *)
(* index built by main, SimState and its tick operation iterate, Person.   *)
(*                                                                         *)
(* Units.  The source keeps current_minute and the line/eating durations   *)
(* as floating point minutes; here they are held in whole seconds, so that *)
(* a tick interval of args.time_interval seconds adds exactly that number. *)
(* The tick intervals of the model are multiples of 30 s, for which the    *)
(* source's binary floating point sums are exact as well.                  *)
(*                                                                         *)
(* Geometry.  A location is its northing in metres from the southern edge  *)
(* of BOUNDING_BOX (latitude only); distances are differences of northings *)
(* and a step moves along the meridian.  Speeds are in decimetres per      *)
(* second.                                                                 *)
(*                                                                         *)
(* Randomness.  Every random draw of the source is a nondeterministic      *)
(* choice from a small set; an operator that draws returns the set of its  *)
(* possible results.                                                       *)
(*                                                                         *)
(* History variables (tick, spawned, removed, last, and the id/init/born/  *)
(* dec fields of persons and queue entries) record what the code did; the  *)
(* code's own state never depends on them.                                 *)
(***************************************************************************)
EXTENDS Integers, Sequences, FiniteSets, TLC

None == "None"
\* the None of current_day, which is a number otherwise
NoDay == 0 - 1

\* ------------------------------------------------------------------ bounds
MaxDays == 2

\* ------------------------------------------------------- program constants
DAY_START_TIME == 7 * 60
DAY_END_TIME == 22 * 60

\* CONVERSION_RATE = 2/5 and DINNER_CONVERSION_RATE = 1/2 as <<num, den>>
CONVERSION_RATE == <<2, 5>>
DINNER_CONVERSION_RATE == <<1, 2>>

\* northing (m) of BOUNDING_BOX[3] above BOUNDING_BOX[2]
BOUNDING_BOX == <<0, 1461>>

\* northing of the [0, 0] location convert_str_to_loc returns on ValueError
LocZero == 0 - 3791070

\* the catalog, in the iteration order of the DINING_HALLS dict
HallOrder == <<"Hoch-Shanahan", "Malott", "Collins", "McConnell", "Frary", "Frank">>
Halls == {HallOrder[i] : i \in 1..Len(HallOrder)}

\* location: northing in metres; timing: hours * 100
DINING_HALLS ==
  [h \in Halls |->
     CASE h = "Hoch-Shanahan" -> [location |-> 1315,
            breakfast |-> <<700, 900>>, lunch |-> <<1175, 1300>>, dinner |-> <<1700, 1900>>]
       [] h = "Malott" -> [location |-> 993,
            breakfast |-> <<750, 1000>>, lunch |-> <<1100, 1400>>, dinner |-> <<1700, 1900>>]
       [] h = "Collins" -> [location |-> 855,
            breakfast |-> <<750, 1050>>, lunch |-> <<1100, 1400>>, dinner |-> <<1650, 1950>>]
       [] h = "McConnell" -> [location |-> 1001,
            breakfast |-> <<750, 1000>>, lunch |-> <<1100, 1350>>, dinner |-> <<1700, 1950>>]
       [] h = "Frary" -> [location |-> 722,
            breakfast |-> <<750, 1000>>, lunch |-> <<1100, 1350>>, dinner |-> <<1700, 1950>>]
       [] h = "Frank" -> [location |-> 248,
            breakfast |-> <<750, 950>>, lunch |-> <<1050, 1350>>, dinner |-> <<1700, 1950>>]]

\* ------------------------------------------------------------ random draws
\* random.gauss(args.speed, 1), in dm/s
SpeedDraws == {0 - 5, 10}
\* random.gauss(time_in_line, 10) - time_in_line, in seconds
LineNoise == {0 - 40, 10}
\* random.gauss(args.eating_time, 2000) - args.eating_time, in seconds
EatNoise == {0 - 4000, 0}

\* random.random(), as <<num, den>>: a value below both conversion rates
\* and a value between them
RandomDraws == {<<1, 10>>, <<9, 20>>}

\* --------------------------------------------------------- pure functions
\* a < b for two fractions <<num, den>> of positive denominator
RateLess(a, b) == a[1] * b[2] < b[1] * a[2]

Max(a, b) == IF a >= b THEN a ELSE b
\* a changed min: the first argument, whatever the second
MinIsFirst(a, b) == a
Min(a, b) == IF a <= b THEN a ELSE b
Abs(a) == IF a >= 0 THEN a ELSE 0 - a

\* int(x) of Python for x = n / d, d > 0: truncation towards zero
IntTrunc(n, d) == IF n >= 0 THEN n \div d ELSE 0 - ((0 - n) \div d)

\* time_to_minutes("HH:MM:SS"), the string held as <<HH, MM, SS>>
time_to_minutes(time) == time[1] * 60 + time[2]

\* order of two "HH:MM:SS" strings (zero padded, so field by field)
TimeLess(a, b) ==
  \/ a[1] < b[1]
  \/ a[1] = b[1] /\ a[2] < b[2]
  \/ a[1] = b[1] /\ a[2] = b[2] /\ a[3] < b[3]

\* convert_str_to_loc: a coordinate string pair of location_data is held as
\* [parses, value]; float() of a string that is no number ("" for an unknown
\* classroom) raises ValueError and the result is [0, 0]
convert_str_to_loc(loc) == IF loc.parses THEN loc.value ELSE LocZero

in_bounds(loc) == loc >= BOUNDING_BOX[1] /\ loc <= BOUNDING_BOX[2]

\* is_open(current_time, dining_hall): current_time / 60 against the three
\* windows; current_time is in seconds here and the windows in hours * 100
\* a changed comparison: the end of a window is excluded
InWindowEndExcluded(t, w) == t >= 36 * w[1] /\ t < 36 * w[2]
InWindow(t, w) == t >= 36 * w[1] /\ t <= 36 * w[2]
is_open(current_time, dining_hall) ==
  IF InWindow(current_time, dining_hall.breakfast) THEN TRUE
  ELSE IF InWindow(current_time, dining_hall.lunch) THEN TRUE
  ELSE IF InWindow(current_time, dining_hall.dinner) THEN TRUE
  ELSE FALSE

\* ------------------------------------------------- schedule index (main)
Weekdays == <<"Monday", "Tuesday", "Wednesday", "Thursday", "Friday">>

RECURSIVE Flatten(_)
\* the (course, timing) pairs in the order main meets them
Flatten(courses) ==
  IF courses = <<>> THEN <<>>
  ELSE [i \in 1..Len(Head(courses).timing) |->
          [course |-> Head(courses), timing |-> Head(courses).timing[i]]]
       \o Flatten(Tail(courses))

RECURSIVE Dedup(_)
\* insertion order of a dict's keys: first occurrences, in order
Dedup(seq) ==
  IF seq = <<>> THEN <<>>
  ELSE LET rest == Dedup(SubSeq(seq, 1, Len(seq) - 1))
           x == seq[Len(seq)]
       IN IF \E i \in 1..Len(rest) : rest[i] = x THEN rest ELSE Append(rest, x)

RECURSIVE ConcatAll(_)
ConcatAll(seqs) == IF seqs = <<>> THEN <<>> ELSE Head(seqs) \o ConcatAll(Tail(seqs))

RECURSIVE InsertSorted(_, _)
\* insertion behind every element that is not greater: a stable sort
InsertSorted(sorted, x) ==
  IF sorted = <<>> THEN <<x>>
  ELSE IF TimeLess(x.timing.end_time, Head(sorted).timing.end_time)
       THEN <<x>> \o sorted
       ELSE <<Head(sorted)>> \o InsertSorted(Tail(sorted), x)

RECURSIVE SortByEndTime(_)
\* list.sort(key=lambda x: x["timing"]["end_time"])
SortByEndTime(seq) ==
  IF seq = <<>> THEN <<>>
  ELSE InsertSorted(SortByEndTime(SubSeq(seq, 1, Len(seq) - 1)), seq[Len(seq)])

\* schedule_by_classroom: the building names in insertion order
ClassroomOrder(courses) ==
  LET fl == Flatten(courses)
  IN Dedup([i \in 1..Len(fl) |-> fl[i].timing.location.building])

\* the keys of schedule_by_day in insertion order
DayOrder(courses) ==
  LET fl == Flatten(courses)
  IN Dedup(Weekdays \o ConcatAll([i \in 1..Len(fl) |-> fl[i].timing.days]))

\* schedule_by_day[day][classroom] after the sort: one copy of a pair for
\* every time the pair's timing lists the day
schedule_by_day(courses, day, classroom) ==
  LET fl == Flatten(courses)
      copies(e) == SelectSeq(e.timing.days, LAMBDA d : d = day)
      one(e) == IF e.timing.location.building = classroom
                THEN [j \in 1..Len(copies(e)) |-> e] ELSE <<>>
  IN SortByEndTime(ConcatAll([i \in 1..Len(fl) |-> one(fl[i])]))

\* the entry main appends to end_times for one (course, timing) pair
EndTimeEntry(e) ==
  [timing |-> e.timing,
   location_string |-> <<e.timing.location.school, e.timing.location.building>>,
   people |-> e.course.seats_taken]

\* end_times: every pair of every day of every classroom, keyed by the
\* minute of its end time alone
BuildEndTimes(courses) ==
  LET days == DayOrder(courses)
      rooms == ClassroomOrder(courses)
      perDay(d) == ConcatAll([r \in 1..Len(rooms) |-> schedule_by_day(courses, d, rooms[r])])
      all == ConcatAll([d \in 1..Len(days) |-> perDay(days[d])])
      keys == {time_to_minutes(all[i].timing.end_time) : i \in 1..Len(all)}
  IN [m \in keys |->
        LET at == SelectSeq(all, LAMBDA e : time_to_minutes(e.timing.end_time) = m)
        IN [i \in 1..Len(at) |-> EndTimeEntry(at[i])]]

\* ------------------------------------------------------------------ state
VARIABLES
  courses,                 \* schedule_data["courses"], the input of main
  end_times,               \* SimState.end_times
  location_data,           \* SimState.location_data
  args,                    \* SimState.args
  current_minute,          \* SimState.current_minute, in seconds
  current_day,             \* SimState.current_day, None once exhausted
  outside_people,          \* SimState.outside_people
  people_in_dining_halls,  \* SimState.people_in_dining_halls
  log,                     \* SimState.log
  raised,                  \* the exception that left iterate, None if none did
  tick,                    \* history: calls of iterate so far
  spawned,                 \* history: persons created in the current day
  removed,                 \* history: ids of the persons removed in the current day
  last                     \* history: what the last call of iterate did

vars == <<courses, end_times, location_data, args, current_minute, current_day,
          outside_people, people_in_dining_halls, log, raised, tick, spawned,
          removed, last>>

\* --------------------------------------------------------------- Person
\* Person.__init__; id, origin and born are history
Person(loc, speed, id, now) ==
  [loc |-> loc, speed |-> speed, destination |-> None,
   id |-> id, origin |-> loc, born |-> now]

\* Person.get_distance
get_distance(person, loc) == Abs(person.loc - loc)

\* a changed in_dining_hall: the radius is 1000 m
in_dining_hall_wide(person, dining_hall) ==
  IF get_distance(person, DINING_HALLS[dining_hall].location) <= 1000 THEN TRUE ELSE FALSE

\* Person.in_dining_hall
in_dining_hall(person, dining_hall) ==
  IF get_distance(person, DINING_HALLS[dining_hall].location) <= 100 THEN TRUE ELSE FALSE

\* Person.move_towards_fast: delta_meters along the initial bearing, which
\* is north (atan2(0, x) with x >= 0) when the person stands on the
\* destination and does not turn when the step passes the destination
move_towards_fast(person, delta_meters) ==
  LET dest == DINING_HALLS[person.destination].location
  IN [person EXCEPT !.loc = IF dest >= person.loc THEN person.loc + delta_meters
                                                ELSE person.loc - delta_meters]

\* Person.choose_dest: the facilities random.choices can return, those of
\* positive weight; the set is empty when choices is empty (the method
\* returns) and when every weight is zero (random.choices raises ValueError)
choose_dest(person, choices) ==
  {choices[i] : i \in {j \in 1..Len(choices) :
                         get_distance(person, DINING_HALLS[choices[j]].location) > 0}}

\* ------------------------------------------------------ SimState helpers
RECURSIVE SumOver(_, _)
SumOver(f, set) ==
  IF set = {} THEN 0
  ELSE LET x == CHOOSE y \in set : TRUE IN f[x] + SumOver(f, set \ {x})

\* history: the ids of the persons a list holds, and the number of persons
\* the collections hold
Ids(seq) == {seq[i].id : i \in 1..Len(seq)}
Population(out, halls) ==
  Len(out) + SumOver([h \in Halls |-> Len(halls[h].in_line)], Halls)
           + SumOver([h \in Halls |-> Len(halls[h].eating)], Halls)

EmptyHalls == [h \in Halls |-> [in_line |-> <<>>, eating |-> <<>>]]

\* list.pop(i) for a 0-based index i
Pop(seq, i) ==
  IF i + 1 \in 1..Len(seq)
  THEN SubSeq(seq, 1, i) \o SubSeq(seq, i + 2, Len(seq))
  ELSE seq

RECURSIVE PopAllNoShift(_, _, _)
\* a changed removal loop: pop(index), the earlier removals forgotten
PopAllNoShift(seq, to_remove, removed_so_far) ==
  IF to_remove = <<>> THEN seq
  ELSE PopAllNoShift(Pop(seq, Head(to_remove)), Tail(to_remove), removed_so_far + 1)

RECURSIVE PopAll(_, _, _)
\* the removal loops of iterate: pop(index - removed) for every collected index
PopAll(seq, to_remove, removed_so_far) ==
  IF to_remove = <<>> THEN seq
  ELSE PopAll(Pop(seq, Head(to_remove) - removed_so_far), Tail(to_remove), removed_so_far + 1)

\* open_dining_halls of iterate, a list in catalog order
open_dining_halls(minute) ==
  SelectSeq(HallOrder, LAMBDA h : is_open(minute, DINING_HALLS[h]))

\* what one call of iterate records about itself
NoLast ==
  [rolled |-> FALSE, day_before |-> 0, cleared |-> 0, open |-> <<>>, delta |-> 0,
   events |-> <<>>, draws |-> <<>>, despawned |-> {}, moved |-> <<>>,
   arrived |-> <<>>, served |-> <<>>, left |-> <<>>]

\* ------------------------------------------------- SimState.iterate, steps
\* The steps work on a record s of the collections iterate changes:
\* out (outside_people), halls (people_in_dining_halls), raised, and the
\* history fields spawned, removed and last.  A step returns the set of the
\* records its random draws can produce.

\* a changed spawn: the new person is put at the head of outside_people
SpawnOneAtHead(s, loc, open, now) ==
  UNION {
    LET person == Person(loc, Max(g, 2), s.spawned + 1, now)
        s1 == [s EXCEPT !.out = <<person>> \o @, !.spawned = @ + 1]
    IN IF Len(open) = 0 THEN {s1}
       ELSE IF choose_dest(person, open) = {}
            THEN {[s1 EXCEPT !.raised = "ValueError"]}
            ELSE {[s1 EXCEPT !.out[1].destination = d] :
                    d \in choose_dest(person, open)}
    : g \in SpeedDraws}

\* step 1, one new person: the speed draw, the append, and choose_dest when
\* a facility is open
SpawnOne(s, loc, open, now) ==
  UNION {
    LET person == Person(loc, Max(g, 2), s.spawned + 1, now)
        s1 == [s EXCEPT !.out = Append(@, person), !.spawned = @ + 1]
    IN IF Len(open) = 0 THEN {s1}
       ELSE IF choose_dest(person, open) = {}
            THEN {[s1 EXCEPT !.raised = "ValueError"]}
            ELSE {[s1 EXCEPT !.out[Len(s1.out)].destination = d] :
                    d \in choose_dest(person, open)}
    : g \in SpeedDraws}

RECURSIVE SpawnPeople(_, _, _, _, _)
\* for i in range(num_spawned)
SpawnPeople(s, loc, n, open, now) ==
  IF n <= 0 \/ s.raised # None THEN {s}
  ELSE UNION {SpawnPeople(s1, loc, n - 1, open, now) : s1 \in SpawnOne(s, loc, open, now)}

\* a changed rate: the default rate at every time of day
SpawnRateAlwaysDefault(minute) == CONVERSION_RATE

\* the conversion rate of the spawn step
SpawnRate(minute) ==
  IF minute >= 17 * 60 * 60 THEN DINNER_CONVERSION_RATE ELSE CONVERSION_RATE

\* step 1, one entry of end_times[current_minute]
SpawnEvent(s, course, open, minute, now) ==
  IF course.location_string \notin DOMAIN location_data
  THEN {[s EXCEPT !.raised = "KeyError",
                  !.last.events = Append(@, [course |-> course, did |-> "raised", n |-> 0,
                                             appended |-> 0])]}
  ELSE LET loc == convert_str_to_loc(location_data[course.location_string])
       IN IF loc = LocZero \/ in_bounds(loc) = FALSE
          THEN {[s EXCEPT !.last.events =
                            Append(@, [course |-> course, did |-> "skipped", n |-> 0,
                                       appended |-> 0])]}
          ELSE LET rate == SpawnRate(minute)
                   num_spawned == IntTrunc(course.people * rate[1], rate[2])
                   s1 == [s EXCEPT !.last.events =
                            Append(@, [course |-> course, did |-> "spawned", n |-> num_spawned,
                                       appended |-> 0])]
               IN \* history: the number of persons the loop has appended
                  {[s2 EXCEPT !.last.events[Len(s1.last.events)].appended =
                                Len(s2.out) - Len(s.out)] :
                     s2 \in SpawnPeople(s1, loc, num_spawned, open, now)}

RECURSIVE SpawnEvents(_, _, _, _, _)
\* for course in self.end_times[self.current_minute]
SpawnEvents(s, list, open, minute, now) ==
  IF list = <<>> \/ s.raised # None THEN {s}
  ELSE UNION {SpawnEvents(s1, Tail(list), open, minute, now) :
                s1 \in SpawnEvent(s, Head(list), open, minute, now)}

\* step 1: if self.current_minute in self.end_times
SpawnStep(s, open, minute, now) ==
  IF minute % 60 = 0 /\ (minute \div 60) \in DOMAIN end_times
  THEN SpawnEvents(s, end_times[minute \div 60], open, minute, now)
  ELSE {s}

\* step 2, person.move_towards_fast(self.args.time_interval * person.speed)
\* for the person at position i; DINING_HALLS[None] raises KeyError
Advance(s, i, interval, chosen) ==
  LET person == s.out[i]
  IN IF person.destination = None
     THEN [s EXCEPT !.raised = "KeyError",
                    !.last.moved = Append(@, [id |-> person.id, destination |-> None,
                                              chosen |-> chosen, from |-> person.loc,
                                              to |-> person.loc])]
     ELSE LET there == move_towards_fast(person, (interval * person.speed) \div 10)
          IN [s EXCEPT !.out[i] = there,
                       !.last.moved = Append(@, [id |-> person.id,
                                                 destination |-> person.destination,
                                                 chosen |-> chosen, from |-> person.loc,
                                                 to |-> there.loc])]

\* step 2, the despawn draw for the person at position i:
\* if random.random() < CONVERSION_RATE: self.outside_people.remove(person)
DespawnDraw(s, i) ==
  LET person == s.out[i]
  IN {LET drawn == [s EXCEPT !.last.draws =
                               Append(@, [id |-> person.id,
                                          destination |-> person.destination,
                                          random |-> u])]
      IN IF RateLess(u, CONVERSION_RATE)
         THEN [drawn EXCEPT !.out = Pop(@, i - 1),
                            !.removed = @ \cup {person.id},
                            !.last.despawned = @ \cup {person.id}]
         ELSE drawn
      : u \in RandomDraws}

\* a changed loop body: the despawn draw does not ask whether a facility
\* is open
MoveOneDrawsAlways(s, i, open, interval) ==
  LET person == s.out[i]
  IN IF person.destination = None
     THEN DespawnDraw(s, i)
     ELSE {Advance(s, i, interval, FALSE)}

\* a changed loop body: no choose_dest for a person without destination
\* when a facility is open
MoveOneNoChoice(s, i, open, interval) ==
  LET person == s.out[i]
  IN IF person.destination = None /\ Len(open) = 0
     THEN DespawnDraw(s, i)
     ELSE {Advance(s, i, interval, FALSE)}

\* a changed loop body: choose_dest for every person when a facility is
\* open, whether or not the person has a destination
MoveOneRechooses(s, i, open, interval) ==
  LET person == s.out[i]
  IN IF Len(open) = 0
     THEN IF person.destination = None
          THEN DespawnDraw(s, i)
          ELSE {Advance(s, i, interval, FALSE)}
     ELSE IF choose_dest(person, open) = {}
          THEN {[s EXCEPT !.raised = "ValueError"]}
          ELSE {Advance([s EXCEPT !.out[i].destination = d], i, interval, TRUE) :
                  d \in choose_dest(person, open)}

\* step 2, one pass of the loop body for the person at position i
MoveOne(s, i, open, interval) ==
  LET person == s.out[i]
  IN IF person.destination = None
     THEN IF Len(open) = 0
          THEN DespawnDraw(s, i)
          ELSE IF choose_dest(person, open) = {}
               THEN {[s EXCEPT !.raised = "ValueError"]}
               ELSE {Advance([s EXCEPT !.out[i].destination = d], i, interval, TRUE) :
                       d \in choose_dest(person, open)}
     ELSE {Advance(s, i, interval, FALSE)}

RECURSIVE MoveLoop(_, _, _, _)
\* for person in self.outside_people: the iterator holds a position, which
\* moves on by one after every pass whether or not the list has shrunk
MoveLoop(s, i, open, interval) ==
  IF i > Len(s.out) \/ s.raised # None THEN {s}
  ELSE UNION {MoveLoop(s1, i + 1, open, interval) : s1 \in MoveOne(s, i, open, interval)}

\* a changed search: the last facility of the catalog the person is in
FirstHallIsLast(person) ==
  LET in == {k \in 1..Len(HallOrder) : in_dining_hall(person, HallOrder[k])}
  IN IF in = {} THEN 0 ELSE CHOOSE k \in in : \A j \in in : k >= j

\* step 3: the first facility of the catalog the person is in, 0 if none
FirstHall(person) ==
  LET in == {k \in 1..Len(HallOrder) : in_dining_hall(person, HallOrder[k])}
  IN IF in = {} THEN 0 ELSE CHOOSE k \in in : \A j \in in : k <= j

\* a queue entry: rem is the value the list holds, the rest is history
Entry(person, time, now) ==
  [rem |-> time, id |-> person.id, person |-> person, init |-> time, born |-> now,
   dec |-> 0]

\* step 3, the person at position i: the line times the noise can give
ArriveOne(s, i, now) ==
  LET person == s.out[i]
      k == FirstHall(person)
  IN IF k = 0 THEN {s}
     ELSE LET dining_hall == HallOrder[k]
              time_in_line == Len(s.halls[dining_hall].in_line) * args.line_time
          IN {[s EXCEPT !.halls[dining_hall].in_line =
                           Append(@, Entry(person, Min(Max(time_in_line + z, 0), 60 * 60), now)),
                        !.to_remove = Append(@, i - 1),
                        !.last.arrived = Append(@, [id |-> person.id, hall |-> dining_hall,
                                                    destination |-> person.destination])] :
                z \in LineNoise}

RECURSIVE ArriveLoop(_, _, _)
\* for index, person in enumerate(self.outside_people)
ArriveLoop(s, i, now) ==
  IF i > Len(s.out) THEN {s}
  ELSE UNION {ArriveLoop(s1, i + 1, now) : s1 \in ArriveOne(s, i, now)}

\* step 3 with the removal loop behind it
ArriveStep(s, now) ==
  {[s1 EXCEPT !.out = PopAll(s1.out, s1.to_remove, 0), !.to_remove = <<>>] :
     s1 \in ArriveLoop([s EXCEPT !.to_remove = <<>>], 1, now)}

RECURSIVE DecrementSkips(_, _, _, _)
\* a changed decrement loop: the entry behind one that is <= 0 is passed
\* over, as when the entry is removed inside the loop
DecrementSkips(list, i, delta, to_remove) ==
  IF i > Len(list) THEN [list |-> list, to_remove |-> to_remove]
  ELSE LET l1 == [list EXCEPT ![i].rem = @ - delta, ![i].dec = @ + 1]
       IN IF l1[i].rem <= 0
          THEN DecrementSkips(l1, i + 2, delta, Append(to_remove, i - 1))
          ELSE DecrementSkips(l1, i + 1, delta, to_remove)

RECURSIVE Decrement(_, _, _, _)
\* for index, person in enumerate(list): list[index] -= delta_minutes and
\* the collection of the indices that are <= 0; the result is
\* [list, to_remove]
Decrement(list, i, delta, to_remove) ==
  IF i > Len(list) THEN [list |-> list, to_remove |-> to_remove]
  ELSE LET l1 == [list EXCEPT ![i].rem = @ - delta, ![i].dec = @ + 1]
       IN Decrement(l1, i + 1, delta,
                    IF l1[i].rem <= 0 THEN Append(to_remove, i - 1) ELSE to_remove)

RECURSIVE ToEatingNoShift(_, _, _, _, _)
\* a changed removal loop: pop(index), the earlier removals forgotten
ToEatingNoShift(s, dining_hall, to_remove, total_removed, now) ==
  IF to_remove = <<>> THEN {s}
  ELSE LET index == Head(to_remove)
           line == s.halls[dining_hall].in_line
           popped == line[IF index + 1 \in 1..Len(line) THEN index + 1 ELSE Len(line)]
       IN UNION {
            ToEatingNoShift([s EXCEPT !.halls[dining_hall].in_line = Pop(@, index),
                                      !.halls[dining_hall].eating =
                                          Append(@, Entry(popped.person,
                                                          Max(args.eating_time + z, 0), now)),
                                      !.last.served = Append(@, popped)],
                            dining_hall, Tail(to_remove), total_removed + 1, now)
            : z \in EatNoise}

RECURSIVE ToEating(_, _, _, _, _)
\* step 4, the removal loop: pop from in_line, draw the eating time, append
ToEating(s, dining_hall, to_remove, total_removed, now) ==
  IF to_remove = <<>> THEN {s}
  ELSE LET index == Head(to_remove) - total_removed
           line == s.halls[dining_hall].in_line
           popped == line[IF index + 1 \in 1..Len(line) THEN index + 1 ELSE Len(line)]
       IN UNION {
            ToEating([s EXCEPT !.halls[dining_hall].in_line = Pop(@, index),
                               !.halls[dining_hall].eating =
                                   Append(@, Entry(popped.person,
                                                   Max(args.eating_time + z, 0), now)),
                               !.last.served = Append(@, popped)],
                     dining_hall, Tail(to_remove), total_removed + 1, now)
            : z \in EatNoise}

\* steps 4 and 5 for one facility
ServeHall(s, dining_hall, delta, now) ==
  LET line == Decrement(s.halls[dining_hall].in_line, 1, delta, <<>>)
      s1 == [s EXCEPT !.halls[dining_hall].in_line = line.list]
  IN {LET eat == Decrement(s2.halls[dining_hall].eating, 1, delta, <<>>)
          gone == [n \in 1..Len(eat.to_remove) |-> eat.list[eat.to_remove[n] + 1]]
      IN [s2 EXCEPT !.halls[dining_hall].eating = PopAll(eat.list, eat.to_remove, 0),
                    !.removed = @ \cup Ids(gone),
                    !.last.left = @ \o gone]
      : s2 \in ToEating(s1, dining_hall, line.to_remove, 0, now)}

RECURSIVE ServeStep(_, _, _, _)
\* for dining_hall in DINING_HALLS
ServeStep(s, k, delta, now) ==
  IF k > Len(HallOrder) THEN {s}
  ELSE UNION {ServeStep(s1, k + 1, delta, now) : s1 \in ServeHall(s, HallOrder[k], delta, now)}

\* the steps of iterate behind the day check, in their order; a step is
\* not reached once an exception has left the one before it
Steps(s, minute, interval, delta, now) ==
  LET open == open_dining_halls(minute)
      s0 == [s EXCEPT !.last.open = open, !.last.delta = delta]
      after1 == SpawnStep(s0, open, minute, now)
      after2 == UNION {MoveLoop(s1, 1, open, interval) : s1 \in after1}
      after3 == UNION {IF s2.raised # None THEN {s2} ELSE ArriveStep(s2, now) : s2 \in after2}
  IN UNION {IF s3.raised # None THEN {s3} ELSE ServeStep(s3, 1, delta, now) : s3 \in after3}

\* a changed snapshot: outside counts from one
SnapshotOffByOne(minute, out, halls) ==
  [minute |-> minute, outside |-> Len(out) + 1,
   in_line |-> [h \in Halls |-> Len(halls[h].in_line)],
   eating |-> [h \in Halls |-> Len(halls[h].eating)]]

\* the snapshot iterate appends to the log
Snapshot(minute, out, halls) ==
  [minute |-> minute, outside |-> Len(out),
   in_line |-> [h \in Halls |-> Len(halls[h].in_line)],
   eating |-> [h \in Halls |-> Len(halls[h].eating)]]

\* a changed append: the snapshot takes the place of the day's bucket
LoggedAlone(lg, day, snap) ==
  LET l1 == IF day = Len(lg) THEN Append(lg, <<>>) ELSE lg
  IN [l1 EXCEPT ![day + 1] = <<snap>>]

\* if self.current_day == len(self.log): self.log.append([]), then the
\* append to self.log[self.current_day]; days are counted from 0
Logged(lg, day, snap) ==
  LET l1 == IF day = Len(lg) THEN Append(lg, <<>>) ELSE lg
  IN [l1 EXCEPT ![day + 1] = Append(@, snap)]

\* ----------------------------------------------------------------- inputs
\* the classroom coordinate table: McGregor stands 10 m from Hoch-Shanahan,
\* Lincoln 205 m south of it with no other facility within 100 m of the
\* way, Pearsons between Frank and Frary; one classroom of unknown
\* coordinates and one outside the bounding box
McGregor == <<"HarveyMudd", "McGregor CompSci Center">>
Lincoln == <<"Pitzer", "Lincoln">>
Pearsons == <<"Pomona", "Pearsons">>
OffCampus == <<"ClaremontMckenna", "Off-Campus Crs Facility">>
Away == <<"Scripps", "Away">>
Missing == <<"Pitzer", "Annex">>

LocationData ==
  [k \in {McGregor, Lincoln, Pearsons, OffCampus, Away} |->
     CASE k = McGregor -> [parses |-> TRUE, value |-> 1305]
       [] k = Lincoln -> [parses |-> TRUE, value |-> 1110]
       [] k = Pearsons -> [parses |-> TRUE, value |-> 400]
       [] k = OffCampus -> [parses |-> FALSE, value |-> 0]
       [] k = Away -> [parses |-> TRUE, value |-> 2000]]

Timing(days, end_time, key) ==
  [days |-> days, end_time |-> end_time, location |-> [school |-> key[1], building |-> key[2]]]
Course(seats_taken, timing) == [seats_taken |-> seats_taken, timing |-> timing]

\* the days argument, a string of one character per simulated day
DayChars == <<"M", "T", "W", "R", "F">>
DaysArg(n) == SubSeq(DayChars, 1, n)

Args(days, time_interval, line_time) ==
  [days |-> days, time_interval |-> time_interval, eating_time |-> 3600,
   line_time |-> line_time]

\* the runs of the model.  With a tick of 900 s the first day visits the
\* minutes 434, 449, ... and a later day 420, 435, ...
Configs == <<
  \* the default tick; two persons walk 205 m to the only open facility
  [courses |-> <<Course(5, <<Timing(<<"Monday">>, <<7, 0, 0>>, Lincoln)>>)>>,
   args |-> Args(DaysArg(1), 60, 90)],
  \* persons outside, in line and eating when the day ends
  [courses |-> <<Course(4, <<Timing(<<"Monday">>, <<21, 59, 0>>, McGregor)>>),
                 Course(2, <<Timing(<<"Monday">>, <<21, 59, 0>>, Pearsons)>>)>>,
   args |-> Args(DaysArg(MaxDays), 900, 1000)],
  \* a class that ends at DAY_START_TIME
  [courses |-> <<Course(3, <<Timing(<<"Monday">>, <<7, 0, 0>>, Pearsons)>>)>>,
   args |-> Args(DaysArg(MaxDays), 900, 600)],
  \* a class of Tuesday and Thursday that ends while every facility is
  \* closed
  [courses |-> <<Course(3, <<Timing(<<"Tuesday", "Thursday">>, <<16, 14, 0>>, Pearsons)>>)>>,
   args |-> Args(DaysArg(1), 900, 600)],
  \* classrooms without coordinates and outside the bounding box, and an
  \* overbooked course with a negative head count
  [courses |-> <<Course(5, <<Timing(<<"Monday">>, <<11, 59, 0>>, OffCampus)>>),
                 Course(5, <<Timing(<<"Monday">>, <<11, 59, 0>>, Away)>>),
                 Course(0 - 4, <<Timing(<<"Monday">>, <<11, 59, 30>>, Lincoln)>>),
                 Course(3, <<Timing(<<"Monday">>, <<11, 59, 0>>, Lincoln)>>)>>,
   args |-> Args(DaysArg(1), 900, 600)],
  \* a classroom that the coordinate table does not hold
  [courses |-> <<Course(3, <<Timing(<<"Monday">>, <<11, 59, 0>>, Lincoln)>>),
                 Course(5, <<Timing(<<"Monday">>, <<11, 59, 0>>, Missing)>>),
                 Course(3, <<Timing(<<"Monday">>, <<11, 59, 0>>, Pearsons)>>)>>,
   args |-> Args(DaysArg(1), 900, 600)],
  \* three persons reach a line in the same tick of 30 s and a fourth
  \* stays outside
  [courses |-> <<Course(6, <<Timing(<<"Monday">>, <<21, 58, 0>>, McGregor)>>),
                 Course(2, <<Timing(<<"Monday">>, <<21, 58, 0>>, Pearsons)>>)>>,
   args |-> Args(DaysArg(1), 30, 30)],
  \* a class that ends while two facilities are open and a class that ends
  \* a tick later, when none is
  [courses |-> <<Course(3, <<Timing(<<"Monday">>, <<13, 59, 0>>, Pearsons)>>),
                 Course(5, <<Timing(<<"Monday">>, <<14, 14, 0>>, Pearsons)>>)>>,
   args |-> Args(DaysArg(1), 900, 600)],
  \* a person away from every facility and, behind it in outside_people,
  \* three persons at the door of a closed facility; a line time above an
  \* hour
  [courses |-> <<Course(3, <<Timing(<<"Monday">>, <<14, 14, 0>>, Pearsons)>>),
                 Course(8, <<Timing(<<"Monday">>, <<14, 14, 0>>, McGregor)>>)>>,
   args |-> Args(DaysArg(1), 900, 4000)],
  \* a schedule without courses
  [courses |-> <<>>,
   args |-> Args(DaysArg(MaxDays), 900, 600)],
  \* the same at a tick of 30 s
  [courses |-> <<>>,
   args |-> Args(DaysArg(MaxDays), 30, 30)],
  \* a tick as long as the day: the first call of iterate ends the first day
  [courses |-> <<>>,
   args |-> Args(DaysArg(MaxDays), (DAY_END_TIME - DAY_START_TIME + 1) * 60, 30)],
  \* the same for a single day: the first call of iterate ends the last day
  [courses |-> <<>>,
   args |-> Args(DaysArg(1), (DAY_END_TIME - DAY_START_TIME + 1) * 60, 30)]
  >>

\* ------------------------------------------------------------- actions
\* SimState.__init__ behind main's construction of end_times
InitOf(config) ==
  /\ courses = config.courses
  /\ end_times = BuildEndTimes(config.courses)
  /\ location_data = LocationData
  /\ args = config.args
  /\ current_minute = (DAY_START_TIME - 1) * 60
  /\ current_day = 0
  /\ outside_people = <<>>
  /\ people_in_dining_halls = EmptyHalls
  /\ log = <<>>
  /\ raised = None
  /\ tick = 0
  /\ spawned = 0
  /\ removed = {}
  /\ last = NoLast

Init == \E c \in 1..Len(Configs) : InitOf(Configs[c])

\* the driver loop of main calls iterate until it returns None or raises
Running == current_day # NoDay /\ raised = None

\* self.current_minute += self.args.time_interval / 60
Advanced == current_minute + args.time_interval
DayOver == Advanced >= DAY_END_TIME * 60

\* SimState.get_next_day: the day index it leaves
get_next_day(day) == IF day + 1 >= Len(args.days) THEN NoDay ELSE day + 1

\* a changed day check: get_next_day does not reset the collections
StartKeepsPeople ==
  [out |-> outside_people, halls |-> people_in_dining_halls, raised |-> None,
   to_remove |-> <<>>, spawned |-> spawned, removed |-> removed,
   last |-> [NoLast EXCEPT !.rolled = DayOver, !.day_before = current_day,
                           !.cleared = IF DayOver
                                       THEN Population(outside_people, people_in_dining_halls)
                                       ELSE 0]]

\* the collections and the history at the start of the steps
Start ==
  IF DayOver
  THEN [out |-> <<>>, halls |-> EmptyHalls, raised |-> None, to_remove |-> <<>>,
        spawned |-> 0, removed |-> {},
        last |-> [NoLast EXCEPT !.rolled = TRUE, !.day_before = current_day,
                                !.cleared = Population(outside_people, people_in_dining_halls)]]
  ELSE [out |-> outside_people, halls |-> people_in_dining_halls, raised |-> None,
        to_remove |-> <<>>, spawned |-> spawned, removed |-> removed,
        last |-> [NoLast EXCEPT !.day_before = current_day]]

NowMinute == IF DayOver THEN DAY_START_TIME * 60 ELSE Advanced
NowDay == IF DayOver THEN get_next_day(current_day) ELSE current_day

Results == Steps(Start, NowMinute, args.time_interval, Advanced - current_minute, tick + 1)

Frame == UNCHANGED <<courses, end_times, location_data, args>>

\* self.log[self.current_day] raises IndexError when the log holds fewer
\* days than the day index (a day that ended before its first snapshot)
LogRaises == NowDay > Len(log)

\* iterate returns True: the steps ran and the snapshot was logged
TickRunning ==
  /\ Running
  /\ NowDay # NoDay
  /\ ~LogRaises
  /\ \E s \in Results :
       /\ s.raised = None
       /\ current_minute' = NowMinute
       /\ current_day' = NowDay
       /\ outside_people' = s.out
       /\ people_in_dining_halls' = s.halls
       /\ log' = Logged(log, NowDay, Snapshot(NowMinute, s.out, s.halls))
       /\ raised' = None
       /\ tick' = tick + 1
       /\ spawned' = s.spawned
       /\ removed' = s.removed
       /\ last' = s.last
  /\ Frame

\* an exception leaves iterate from within the steps or from the append to
\* the log: nothing is logged and main ends
TickRaises ==
  /\ Running
  /\ NowDay # NoDay
  /\ \E s \in Results :
       /\ s.raised # None \/ LogRaises
       /\ current_minute' = NowMinute
       /\ current_day' = NowDay
       /\ outside_people' = s.out
       /\ people_in_dining_halls' = s.halls
       /\ log' = log
       /\ raised' = IF s.raised # None THEN s.raised ELSE "IndexError"
       /\ tick' = tick + 1
       /\ spawned' = s.spawned
       /\ removed' = s.removed
       /\ last' = s.last
  /\ Frame

\* iterate returns None: the last configured day is over
TickFinished ==
  /\ Running
  /\ DayOver
  /\ NowDay = NoDay
  /\ current_minute' = DAY_START_TIME * 60
  /\ current_day' = NoDay
  /\ outside_people' = <<>>
  /\ people_in_dining_halls' = EmptyHalls
  /\ tick' = tick + 1
  /\ spawned' = 0
  /\ removed' = {}
  /\ last' = Start.last
  /\ UNCHANGED <<log, raised>>
  /\ Frame

Next == TickRunning \/ TickRaises \/ TickFinished

Spec == Init /\ [][Next]_vars

\* the driver loop of main calls iterate again as long as it has not
\* returned None and no exception has left it
LiveInit ==
  \E c \in 1..Len(Configs) :
    /\ Configs[c].courses = <<>> \/ Configs[c].args.time_interval >= 60
    /\ InitOf(Configs[c])

LiveSpec == LiveInit /\ [][Next]_vars /\ WF_vars(Next)

\* ---------------------------------------------------------------- claims
OutsideIds == Ids(outside_people)
LineIds(h) == Ids(people_in_dining_halls[h].in_line)
EatingIds(h) == Ids(people_in_dining_halls[h].eating)
PresentIds == OutsideIds \cup UNION {LineIds(h) \cup EatingIds(h) : h \in Halls}
PresentCount == Population(outside_people, people_in_dining_halls)

\* C1: at the end of every tick the persons spawned in the current day are
\* each in exactly one place: outside, one line, one eating list, or
\* removed; the sizes add up to the number spawned and no person is held
\* twice
C1_Conservation ==
  raised = None =>
    /\ PresentCount + Cardinality(removed) = spawned
    /\ Cardinality(PresentIds) = PresentCount
    /\ PresentIds \cap removed = {}
    /\ PresentIds \cup removed = 1..spawned

C1_Witness ==
  /\ raised = None
  /\ Len(outside_people) > 0
  /\ \E h \in Halls : Len(people_in_dining_halls[h].in_line) > 0
  /\ \E h \in Halls : Len(people_in_dining_halls[h].eating) > 0
  /\ removed # {}

\* the snapshot the last call of iterate logged
LastSnapshot == log[current_day + 1][Len(log[current_day + 1])]
Logging == tick > 0 /\ current_day # NoDay /\ raised = None

EmptySnapshot(snap) ==
  /\ snap.outside = 0
  /\ \A h \in Halls : snap.in_line[h] = 0 /\ snap.eating[h] = 0

\* the persons the collections hold, whatever the collection
PresentPersons ==
  {outside_people[i] : i \in 1..Len(outside_people)}
  \cup UNION {{people_in_dining_halls[h].in_line[i].person :
                 i \in 1..Len(people_in_dining_halls[h].in_line)} : h \in Halls}
  \cup UNION {{people_in_dining_halls[h].eating[i].person :
                 i \in 1..Len(people_in_dining_halls[h].eating)} : h \in Halls}

\* C2 as claimed: the snapshot of a tick that rolls the day over shows
\* DAY_START_TIME and nobody outside, in line or eating, and the day index
\* is one more than before
C2_RolloverEmpty ==
  (Logging /\ last.rolled) =>
    /\ LastSnapshot.minute = DAY_START_TIME * 60
    /\ EmptySnapshot(LastSnapshot)
    /\ current_day = last.day_before + 1

\* C2 amended: the snapshot of a tick that rolls the day over shows
\* DAY_START_TIME, the day index is one more than before, and the snapshot
\* counts only persons that this tick spawned (none from the day before);
\* it counts nobody when no class ends at DAY_START_TIME
C2_RolloverFresh ==
  (Logging /\ last.rolled) =>
    /\ LastSnapshot.minute = DAY_START_TIME * 60
    /\ current_minute = DAY_START_TIME * 60
    /\ current_day = last.day_before + 1
    /\ LastSnapshot = Snapshot(current_minute, outside_people, people_in_dining_halls)
    /\ \A p \in PresentPersons : p.born = tick
    /\ DAY_START_TIME \notin DOMAIN end_times => EmptySnapshot(LastSnapshot)

C2_Witness ==
  /\ Logging /\ last.rolled
  /\ last.cleared >= 3
  /\ EmptySnapshot(LastSnapshot)

\* the weekday a character of the days argument stands for
WeekdayOf(c) ==
  CASE c = "M" -> "Monday" [] c = "T" -> "Tuesday" [] c = "W" -> "Wednesday"
    [] c = "R" -> "Thursday" [] c = "F" -> "Friday"

InSeq(x, seq) == \E i \in 1..Len(seq) : seq[i] = x

\* C3 as claimed: a tick at minute M of a day of weekday W fires one event
\* for each timing entry that lists W and ends at M, and no event of a
\* timing entry that does not list W
C3_EventsOfWeekday ==
  Logging =>
    LET W == WeekdayOf(args.days[current_day + 1])
        due == SelectSeq(Flatten(courses),
                         LAMBDA e : /\ InSeq(W, e.timing.days)
                                    /\ time_to_minutes(e.timing.end_time) * 60 = current_minute)
    IN /\ Len(last.events) = Len(due)
       /\ \A i \in 1..Len(last.events) : InSeq(W, last.events[i].course.timing.days)

\* C4 as claimed: while the simulation is running, from construction on,
\* current_minute lies in [DAY_START_TIME, DAY_END_TIME)
C4_MinuteInDay ==
  current_day # NoDay =>
    /\ current_minute >= DAY_START_TIME * 60
    /\ current_minute < DAY_END_TIME * 60

\* a location key the spawn step cannot use
Unusable(key) ==
  \/ key \notin DOMAIN location_data
  \/ ~location_data[key].parses
  \/ ~in_bounds(location_data[key].value)

\* C5 as claimed: an event of a classroom that is absent from the table,
\* has empty coordinates or lies outside the bounding box is skipped without
\* an error: nobody is spawned for it, the other events of the minute are
\* processed and the tick logs its snapshot
C5_UnusableSkipped ==
  (tick > 0 /\ current_day # NoDay /\ current_minute % 60 = 0
     /\ (current_minute \div 60) \in DOMAIN end_times) =>
    LET due == end_times[current_minute \div 60]
    IN /\ raised = None
       /\ Len(last.events) = Len(due)
       /\ \A i \in 1..Len(last.events) :
            Unusable(due[i].location_string) =>
              last.events[i].did = "skipped" /\ last.events[i].n = 0

SeqSet(seq) == {seq[i] : i \in 1..Len(seq)}

\* the entries the lines and eating lists hold, and those the last tick
\* took out of them
QueueEntries ==
  UNION {SeqSet(people_in_dining_halls[h].in_line) \cup SeqSet(people_in_dining_halls[h].eating)
           : h \in Halls}
  \cup SeqSet(last.served) \cup SeqSet(last.left)

\* C6: every entry of a line or an eating list has been decremented by the
\* tick interval exactly once in each tick since it was pushed, the tick of
\* the push included, and so has every entry a tick removes
C6_DecrementedOnce ==
  Logging =>
    \A e \in QueueEntries :
      /\ e.dec = tick - e.born + 1
      /\ e.rem = e.init - e.dec * args.time_interval

C6_Witness ==
  /\ Logging
  /\ Len(last.served) >= 2
  /\ \E h \in Halls :
       /\ \E e \in SeqSet(people_in_dining_halls[h].in_line) : e.born = tick /\ e.dec = 1
       /\ \E e \in SeqSet(people_in_dining_halls[h].eating) : e.born = tick /\ e.dec = 1

\* the number of events the schedule index holds
RECURSIVE EventCount(_)
EventCount(keys) ==
  IF keys = {} THEN 0
  ELSE LET m == CHOOSE k \in keys : TRUE
       IN Len(end_times[m]) + EventCount(keys \ {m})

\* the minute of the tick that spawned a person of the current day
SpawnMinute(person) == current_minute - (tick - person.born) * args.time_interval

\* C7 as claimed: with a single spawn event and one open facility at
\* distance D, a person of speed v is in the facility's line no earlier than
\* ceil((D / v) / I) ticks after the tick of the event
C7_ArrivalAfterWalk ==
  Logging =>
    \A h \in Halls : \A e \in SeqSet(people_in_dining_halls[h].in_line) :
      (EventCount(DOMAIN end_times) = 1 /\ open_dining_halls(SpawnMinute(e.person)) = <<h>>) =>
        (tick - e.person.born) * e.person.speed * args.time_interval
          >= 10 * Abs(e.person.origin - DINING_HALLS[h].location)

\* C7 amended: a person of speed v spawned at distance D of a facility is
\* in that facility's line no earlier than ceil(((D - 100) / v) / I) - 1
\* ticks after the tick that spawned it
C7_ArrivalAfterApproach ==
  Logging =>
    \A h \in Halls : \A e \in SeqSet(people_in_dining_halls[h].in_line) :
      (tick - e.person.born + 1) * e.person.speed * args.time_interval
        >= 10 * (Abs(e.person.origin - DINING_HALLS[h].location) - 100)

C7_Witness ==
  /\ Logging
  /\ EventCount(DOMAIN end_times) = 1
  /\ \E h \in Halls : \E e \in SeqSet(people_in_dining_halls[h].in_line) :
       /\ open_dining_halls(SpawnMinute(e.person)) = <<h>>
       /\ Abs(e.person.origin - DINING_HALLS[h].location) > 100
       /\ tick - e.person.born >= 1

\* C9: a despawn draw is made only for a person without destination and
\* only in a tick in which no facility is open, and only a person drawn for
\* is despawned: nobody is despawned while a facility is open
C9_NoDespawnWhileOpen ==
  tick > 0 =>
    /\ \A d \in SeqSet(last.draws) : d.destination = None /\ Len(last.open) = 0
    /\ last.despawned \subseteq {d.id : d \in SeqSet(last.draws)}
    /\ Len(last.open) > 0 => last.despawned = {}

C9_Witness ==
  /\ Logging
  /\ last.despawned # {}
  /\ Len(last.open) = 0
  /\ Len(outside_people) > 0

\* C10: no person is advanced without a destination, and in a tick in
\* which a facility is open every outside person has a destination and is
\* advanced with it
C10_DestinationBeforeMove ==
  tick > 0 =>
    /\ \A m \in SeqSet(last.moved) : m.destination # None
    /\ (raised = None /\ Len(last.open) > 0) =>
         /\ \A q \in SeqSet(outside_people) : q.destination # None
         /\ \A a \in SeqSet(last.arrived) : a.destination # None
         /\ {m.id : m \in SeqSet(last.moved)}
              = OutsideIds \cup {a.id : a \in SeqSet(last.arrived)}

C10_Witness ==
  /\ Logging
  /\ Len(last.open) > 0
  /\ \E m \in SeqSet(last.moved) : m.chosen /\ m.destination # None /\ m.to # m.from

\* C11: with a schedule that holds no event, nobody is outside, in a line
\* or eating after any tick, and every snapshot of every day shows 0 for
\* outside and for the in_line and eating of every facility
C11_NoEventsNobody ==
  Flatten(courses) = <<>> =>
    /\ outside_people = <<>>
    /\ people_in_dining_halls = EmptyHalls
    /\ \A d \in 1..Len(log) : \A i \in 1..Len(log[d]) : EmptySnapshot(log[d][i])

C11_Witness ==
  /\ Flatten(courses) = <<>>
  /\ Logging
  /\ Len(log) >= 2
  /\ Len(log[Len(log)]) >= 2
  /\ Len(last.open) > 0

\* C12 as claimed: the driver loop ends after finitely many calls of
\* iterate with the simulation Finished (current_day is None), and the
\* call that returns None spawns, draws for, moves, admits and serves nobody
\* and logs nothing
C12_ReachesFinished ==
  /\ <>(current_day = NoDay)
  /\ [][current_day' = NoDay =>
          /\ log' = log
          /\ spawned' = 0 /\ outside_people' = <<>> /\ people_in_dining_halls' = EmptyHalls
          /\ last'.events = <<>> /\ last'.draws = <<>> /\ last'.moved = <<>>
          /\ last'.arrived = <<>> /\ last'.served = <<>> /\ last'.left = <<>>]_vars

\* a time of day in seconds lies in a window of fractional hours, held as
\* hours * 100, when the hours it makes (seconds / 3600) are not below the
\* window's start and not above its end
HoursWithin(seconds, window) ==
  /\ seconds * 100 >= window[1] * 3600
  /\ seconds * 100 <= window[2] * 3600

WindowsOf(h) == {DINING_HALLS[h].breakfast, DINING_HALLS[h].lunch, DINING_HALLS[h].dinner}

\* C13: the facilities a tick finds open are, in catalog order, exactly
\* those with a breakfast, lunch or dinner window that holds the tick's
\* time of day, both ends of a window included: a facility is open at the
\* very start and at the very end of a window and closed at every time
\* outside its three windows
C13_OpenInWindows ==
  (tick > 0 /\ current_day # NoDay) =>
    /\ \A h \in Halls :
          InSeq(h, last.open) <=> \E w \in WindowsOf(h) : HoursWithin(current_minute, w)
    /\ \A i, j \in 1..Len(last.open) :
          i < j => \E k, l \in 1..Len(HallOrder) :
                     k < l /\ HallOrder[k] = last.open[i] /\ HallOrder[l] = last.open[j]
    /\ \A h \in Halls : \A w \in WindowsOf(h) :
          (current_minute * 100 = w[1] * 3600 \/ current_minute * 100 = w[2] * 3600)
            => InSeq(h, last.open)

\* the end of a breakfast window that is the start of another facility's
\* lunch window, with a facility closed
C13_Witness ==
  /\ Logging
  /\ \E h, g \in Halls :
       /\ current_minute * 100 = DINING_HALLS[h].breakfast[2] * 3600
       /\ current_minute * 100 = DINING_HALLS[g].lunch[1] * 3600
       /\ InSeq(h, last.open) /\ InSeq(g, last.open)
  /\ \E h \in Halls : ~InSeq(h, last.open)

\* the records of the last tick's movement step for a person
MovesOf(id) == {k \in 1..Len(last.moved) : last.moved[k].id = id}

\* the persons with a destination that the tick has left outside or has
\* put into a line or an eating list
Walkers ==
  {p \in SeqSet(outside_people) : p.destination # None}
  \cup {e.person : e \in {q \in QueueEntries :
                            /\ q.person.destination # None
                            /\ q.id \in {a.id : a \in SeqSet(last.arrived)}}}

\* C14: every person that is outside with a destination at the movement
\* step of a tick is advanced in that tick exactly once, by speed times the
\* tick interval, whether or not other persons are despawned in the same
\* scan: this holds of the persons that were outside with a destination
\* before the tick and of those the tick has spawned or given a destination
C14_WalkersAdvancedOnce ==
  /\ [](Logging =>
         \A p \in Walkers :
           /\ Cardinality(MovesOf(p.id)) = 1
           /\ \A k \in MovesOf(p.id) :
                /\ last.moved[k].to = p.loc
                /\ Abs(last.moved[k].to - last.moved[k].from) * 10
                     = p.speed * args.time_interval)
  /\ [][(raised' = None /\ current_day' = current_day) =>
          \A i \in 1..Len(outside_people) :
            outside_people[i].destination # None =>
              \E k \in 1..Len(last'.moved) :
                /\ last'.moved[k].id = outside_people[i].id
                /\ last'.moved[k].from = outside_people[i].loc
                /\ \A l \in 1..Len(last'.moved) :
                     last'.moved[l].id = outside_people[i].id => l = k]_vars

\* a person with a destination is advanced in a scan that despawns another
C14_Witness ==
  /\ Logging
  /\ Len(last.open) = 0
  /\ last.despawned # {}
  /\ \E p \in Walkers : \E k \in MovesOf(p.id) : last.moved[k].to # last.moved[k].from

\* the records of the last tick's despawn draws for a person
DrawsOf(id) == {k \in 1..Len(last.draws) : last.draws[k].id = id}

\* the persons without destination that were outside at the movement step
\* of the last tick: those still outside, those the arrival step has put
\* into a line, and those despawned
Idlers ==
  {p.id : p \in {q \in SeqSet(outside_people) : q.destination = None}}
  \cup {a.id : a \in {b \in SeqSet(last.arrived) : b.destination = None}}
  \cup last.despawned

\* C15 as claimed: in a tick in which no facility is open every outside
\* person without destination receives exactly one despawn draw; nobody is
\* passed over and nobody is drawn for twice
C15_OneDrawEach ==
  (Logging /\ Len(last.open) = 0) =>
    \A id \in Idlers : Cardinality(DrawsOf(id)) = 1

\* C16 as claimed: a despawn draw removes the person exactly when the
\* value drawn is below the conversion rate that is active in the tick, the
\* dinner rate from 17:00 on and the default rate before, as in the spawn
\* step
C16_DespawnAtActiveRate ==
  Logging =>
    \A d \in SeqSet(last.draws) :
      d.id \in last.despawned <=> RateLess(d.random, SpawnRate(current_minute))

\* C17: an event of a classroom with coordinates inside the bounding box
\* appends floor(people * rate) persons to outside_people when people >= 0
\* and none when people is negative, where rate is 1/2 from 17:00 on and
\* 2/5 before; no event makes outside_people shorter
C17_SpawnCount ==
  Logging =>
    \A i \in 1..Len(last.events) :
      LET e == last.events[i]
          people == e.course.people
      IN /\ e.appended >= 0
         /\ ~Unusable(e.course.location_string) =>
              /\ e.did = "spawned"
              /\ e.appended = IF people < 0 THEN 0
                              ELSE IF current_minute >= 17 * 3600
                                   THEN people \div 2
                                   ELSE (2 * people) \div 5

\* a tick with an event of a negative head count and an event that spawns
C17_Witness ==
  /\ Logging
  /\ \E i \in 1..Len(last.events) :
       last.events[i].course.people < 0 /\ last.events[i].did = "spawned"
  /\ \E i \in 1..Len(last.events) : last.events[i].appended > 0
  /\ \E i \in 1..Len(last.events) : last.events[i].did = "skipped"

\* C17, the dinner rate: an event of four seats spawns two persons
C17_WitnessDinner ==
  /\ Logging
  /\ current_minute >= 17 * 3600
  /\ \E i \in 1..Len(last.events) :
       last.events[i].course.people = 4 /\ last.events[i].appended = 2

\* the ids of a list of entries, in the list's order
IdSeq(list) == [i \in 1..Len(list) |-> list[i].id]

\* the elements of seq that keep holds, in their order
Kept(seq, keep) == SelectSeq(seq, LAMBDA x : x \in keep)

\* a tick that ran its steps within the day it began in
ServiceTick == tick' = tick + 1 /\ raised' = None /\ current_day' = current_day

\* C18: the line service of a facility in a tick removes exactly the
\* in_line entries that are <= 0 after the decrement and appends one eating
\* entry for each, behind the entries the eating list held; no entry <= 0
\* is left in a line; the entries that stay keep their order, before the
\* entries of the tick's arrivals.  The eating service removes exactly the
\* eating entries that are <= 0 after the decrement and keeps the order of
\* the others
C18_ServiceRemovesDue ==
  /\ [](Logging =>
         /\ \A h \in Halls :
               /\ \A e \in SeqSet(people_in_dining_halls[h].in_line) : e.rem > 0
               /\ \A e \in SeqSet(people_in_dining_halls[h].eating) : e.rem > 0
         /\ \A e \in SeqSet(last.served) \cup SeqSet(last.left) : e.rem <= 0)
  /\ [][ServiceTick =>
          \A h \in Halls :
            LET line == people_in_dining_halls[h].in_line
                eating == people_in_dining_halls[h].eating
                line1 == people_in_dining_halls'[h].in_line
                eating1 == people_in_dining_halls'[h].eating
                delta == args.time_interval
                stay == {e.id : e \in {x \in SeqSet(line) : x.rem - delta > 0}}
                due == SeqSet(IdSeq(line)) \ stay
                sit == {e.id : e \in {x \in SeqSet(eating) : x.rem - delta > 0}}
                came == SelectSeq(last'.arrived, LAMBDA a : a.hall = h)
                arrivals == [i \in 1..Len(came) |-> came[i].id]
                served == IdSeq(SelectSeq(last'.served,
                                          LAMBDA e : e.id \in due \cup SeqSet(arrivals)))
            IN /\ due \subseteq SeqSet(IdSeq(last'.served))
               /\ Kept(IdSeq(line1), SeqSet(IdSeq(line))) = Kept(IdSeq(line), stay)
               /\ IdSeq(line1) = Kept(IdSeq(line), stay)
                                   \o Kept(arrivals, SeqSet(IdSeq(line1)))
               /\ Kept(IdSeq(eating1), SeqSet(IdSeq(eating))) = Kept(IdSeq(eating), sit)
               /\ IdSeq(eating1) = Kept(IdSeq(eating), sit)
                                     \o Kept(served, SeqSet(IdSeq(eating1)))
               /\ \A i \in 1..Len(served) :
                    served[i] \in SeqSet(IdSeq(eating1)) \cup SeqSet(IdSeq(last'.left))]_vars

\* of three persons that arrive at a facility in a tick, the first and the
\* third are served in the tick and the second stays in the line
C18_Witness ==
  /\ Logging
  /\ \E h \in Halls : \E i, j, k \in 1..Len(last.arrived) :
       /\ i < j /\ j < k
       /\ last.arrived[i].id \in SeqSet(IdSeq(last.served))
       /\ last.arrived[k].id \in SeqSet(IdSeq(last.served))
       /\ last.arrived[j].id \in SeqSet(IdSeq(people_in_dining_halls[h].in_line))
       /\ last.arrived[i].hall = h /\ last.arrived[k].hall = h

\* the ticks it takes to count an hour down
TicksPerHour == (60 * 60 + args.time_interval - 1) \div args.time_interval

\* C19: every duration pushed onto a line lies in [0, 60] minutes; every
\* entry a tick leaves in a line is > 0 and <= 60 minutes; and a person
\* that joins a line is moved to the eating list no later than in the
\* ceil(60 / delta_minutes)-th tick, the tick of the push counted, unless
\* the day rolls over first
C19_LineDurationBounded ==
  Logging =>
    /\ \A h \in Halls : \A e \in SeqSet(people_in_dining_halls[h].in_line) :
          /\ e.init >= 0 /\ e.init <= 60 * 60
          /\ e.rem > 0 /\ e.rem <= 60 * 60
          /\ tick - e.born + 1 < TicksPerHour
    /\ \A e \in SeqSet(last.served) :
          /\ e.init >= 0 /\ e.init <= 60 * 60
          /\ tick - e.born + 1 <= TicksPerHour

\* an entry pushed with 60 minutes is served in the last tick of its hour
\* while another entry is served in the tick that pushed it
C19_Witness ==
  /\ Logging
  /\ \E e \in SeqSet(last.served) : e.init = 60 * 60 /\ tick - e.born + 1 = TicksPerHour
  /\ \E e \in SeqSet(last.left) : e.born = e.person.born

\* a location within 100 m of a facility, and a facility's place in the
\* catalog
Near(loc, h) == Abs(loc - DINING_HALLS[h].location) <= 100
CatalogIndex(h) == CHOOSE k \in 1..Len(HallOrder) : HallOrder[k] = h

\* C20: the arrival step pushes a person that is within 100 m of one or
\* several facilities onto one line, that of the first such facility in
\* catalog order, and takes it out of outside_people; it does so once for
\* a person; it leaves outside, in their order, exactly the persons that
\* are within 100 m of no facility
C20_FirstMatchOnce ==
  /\ [](Logging =>
         /\ \A i \in 1..Len(last.arrived) :
               LET a == last.arrived[i]
               IN /\ \A e \in QueueEntries :
                        e.id = a.id =>
                          /\ Near(e.person.loc, a.hall)
                          /\ \A k \in 1..Len(HallOrder) :
                               k < CatalogIndex(a.hall) => ~Near(e.person.loc, HallOrder[k])
                  /\ \A j \in 1..Len(last.arrived) : last.arrived[j].id = a.id => j = i
                  /\ a.id \notin OutsideIds
                  /\ a.id \in LineIds(a.hall) \cup SeqSet(IdSeq(last.served))
                  /\ \A h \in Halls \ {a.hall} : a.id \notin LineIds(h)
                  /\ Cardinality({k \in 1..Len(people_in_dining_halls[a.hall].in_line) :
                                    people_in_dining_halls[a.hall].in_line[k].id = a.id})
                       + Cardinality({k \in 1..Len(last.served) : last.served[k].id = a.id})
                       = 1
         /\ \A p \in SeqSet(outside_people) : \A h \in Halls : ~Near(p.loc, h))
  /\ [][ServiceTick =>
          /\ OutsideIds \subseteq
               OutsideIds' \cup {a.id : a \in SeqSet(last'.arrived)} \cup last'.despawned
          /\ Kept(IdSeq(outside_people'), OutsideIds) = Kept(IdSeq(outside_people), OutsideIds')]_vars

\* a person within 100 m of three facilities joins the line of the first,
\* which is not its destination
C20_Witness ==
  /\ Logging
  /\ \E a \in SeqSet(last.arrived) : \E e \in QueueEntries :
       /\ e.id = a.id
       /\ Cardinality({h \in Halls : Near(e.person.loc, h)}) >= 3
       /\ a.destination # None /\ a.destination # a.hall
       /\ Near(e.person.loc, a.destination)

\* C20, the removal: persons behind one that stays outside are taken out
C20_WitnessBehind ==
  /\ Logging
  /\ Len(last.arrived) >= 2
  /\ \E p \in SeqSet(outside_people) : \A a \in SeqSet(last.arrived) : p.id < a.id

\* a call of iterate that returns True
ReturnsRunning == tick' = tick + 1 /\ raised' = None /\ current_day' # NoDay

\* C21: every tick that returns Running appends exactly one snapshot to
\* the log bucket of current_day (a new bucket behind the others when the
\* day has none yet); the snapshot's outside, in_line and eating counts are
\* the sizes of the collections at the end of the tick; every snapshot
\* logged before, of every day, stays where it is and as it is
C21_OneSnapshotAppended ==
  [][ReturnsRunning =>
       LET d == current_day' + 1
           before == IF d <= Len(log) THEN log[d] ELSE <<>>
       IN /\ d <= Len(log) + 1
          /\ Len(log') = IF d = Len(log) + 1 THEN Len(log) + 1 ELSE Len(log)
          /\ \A k \in 1..Len(log) : k # d => log'[k] = log[k]
          /\ Len(log'[d]) = Len(before) + 1
          /\ SubSeq(log'[d], 1, Len(before)) = before
          /\ LET snap == log'[d][Len(log'[d])]
             IN /\ snap.outside = Len(outside_people')
                /\ \A h \in Halls :
                     /\ snap.in_line[h] = Len(people_in_dining_halls'[h].in_line)
                     /\ snap.eating[h] = Len(people_in_dining_halls'[h].eating)]_vars

\* a snapshot that counts persons, appended to the bucket of the second
\* day behind an earlier snapshot, with the first day's bucket logged
C21_Witness ==
  /\ Logging
  /\ current_day = 1
  /\ Len(log) = 2 /\ Len(log[1]) >= 2 /\ Len(log[2]) >= 2
  /\ ~EmptySnapshot(LastSnapshot)

\* C21, the earlier days: a snapshot is appended to the second day's
\* bucket while the first day's bucket holds a snapshot that counts persons
C21_WitnessEarlier ==
  /\ Logging
  /\ current_day = 1
  /\ Len(log[2]) >= 2
  /\ \E i \in 1..Len(log[1]) : ~EmptySnapshot(log[1][i])

\* the ticks of the day of bucket d that stood at minute M: every tick
\* that returns Running logs one snapshot with its current_minute
TicksAt(d, M) == {i \in 1..Len(log[d]) : log[d][i].minute = M * 60}

\* a day whose ticks have all been made
DayDone(d) == current_day = NoDay \/ current_day >= d

\* C22 as claimed: within each simulated day, the first and every later
\* one, every integer minute of [DAY_START_TIME, DAY_END_TIME) that is a
\* key of the schedule is the current_minute of exactly one tick
C22_EveryScheduleMinuteOnce ==
  raised = None =>
    \A d \in 1..Len(log) :
      DayDone(d) =>
        \A M \in DOMAIN end_times :
          (M >= DAY_START_TIME /\ M < DAY_END_TIME) => Cardinality(TicksAt(d, M)) = 1

\* C23 as claimed: a tick pushes a person onto a facility's line only when
\* the facility is open in that tick and is the person's destination
C23_ArrivalAtOpenDestination ==
  Logging =>
    \A a \in SeqSet(last.arrived) :
      /\ InSeq(a.hall, last.open)
      /\ a.destination = a.hall

\* the positions at which outside_people held the person of an id before
\* a tick of the same day (ids start again with every day)
Was(id) ==
  {i \in 1..Len(outside_people) : outside_people[i].id = id /\ current_day' = current_day}

\* C24: a destination is assigned from the facilities that are open in
\* the tick of the assignment, at the spawn or in the movement step, and a
\* person that is outside with a destination keeps that destination in
\* every later tick in which it is still outside, whether or not the
\* facility is still open
C24_DestinationKept ==
  /\ [](tick > 0 =>
         /\ \A m \in SeqSet(last.moved) : m.chosen => InSeq(m.destination, last.open)
         /\ \A q \in SeqSet(outside_people) :
              (q.born = tick /\ q.destination # None) => InSeq(q.destination, last.open))
  /\ [][(tick' = tick + 1 /\ current_day' # NoDay) =>
          \A j \in 1..Len(outside_people') :
            LET q == outside_people'[j]
            IN /\ \A i \in Was(q.id) :
                    outside_people[i].destination # None =>
                      q.destination = outside_people[i].destination
               /\ (q.destination # None
                     /\ \A i \in Was(q.id) : outside_people[i].destination = None)
                    => InSeq(q.destination, last'.open)]_vars

\* a person that got its destination in an earlier tick is still outside
\* and on its way in a tick in which the facility is closed
C24_Witness ==
  /\ Logging
  /\ \E q \in SeqSet(outside_people) :
       /\ q.born < tick
       /\ q.destination # None
       /\ ~InSeq(q.destination, last.open)
       /\ \E m \in SeqSet(last.moved) : m.id = q.id /\ ~m.chosen /\ m.to # m.from

\* C25 as claimed: when iterate returns Finished the log holds one bucket
\* for each configured day, len(log) = len(days), and the call is the one
\* that makes the len(days)-th day rollover (the day index, which counts
\* the rollovers, stood at len(days) - 1 before it)
C25_FinishedLogPerDay ==
  current_day = NoDay =>
    /\ Len(log) = Len(args.days)
    /\ last.rolled
    /\ last.day_before + 1 = Len(args.days)

==========================================================================
